---- MODULE Spec2Model ----
(***************************************************************************)
(* Real-time messaging hub of kodefx-server: the chat handler              *)
(* (HandleWebSocket, validateMessage, handleClientMessages, the channel    *)
(* administration handlers) together with the Hub, the write pump and the  *)
(* persisted store it talks to.                                            *)
(*                                                                         *)
(* The Hub and the write pump live in package cmd/models; their behaviour  *)
(* is the one their documentation gives (Hub operations, failure           *)
(* semantics, write pump).  Everything else is translated from the         *)
(* handler source.                                                         *)
(***************************************************************************)
EXTENDS Integers, Sequences, FiniteSets, TLC

\* ------------------------------------------------------------------ bounds

\* Capacity of a connection's outbound queue (make(chan []byte, 256) scaled).
SendCap == 1
\* Message rows the store accepts before the clients stop sending frames.
MaxMsgs == 1
\* Events waiting in the Hub's inbound queue.
MaxHubQ == 2

\* ------------------------------------------------------------- the universe

Users == {1, 2, 3}
Channels == {1}
\* Connections (transport sessions) and the user id given in /ws/{id}.
\* Connections 4 and 5 are user 3's, who is no member of channel 1 at first.
Conns == {1, 2, 3, 4, 5}
UserOf(c) == IF c = 1 THEN 1 ELSE IF c \in {4, 5} THEN 3 ELSE 2
\* The user the identity provider has authenticated the caller of a session
\* as (0: the request carries no valid credentials).  Session 3 is opened
\* under user 2's id by a caller without credentials; the /ws/{id} route and
\* HandleWebSocket never look at it.
Authenticated(c) == IF c = 3 THEN 0 ELSE UserOf(c)

\* Identifiers a client may put in receiver_id / channel_id (0: zero value).
TargetIds == {0, 1, 2}
Contents == {"", "hi"}
MsgTypes == {"peer", "channel", "bogus"}

\* An inbound envelope as decoded from one frame: the declared type, whether
\* the sub-message of that type is present, and the sub-message's fields
\* (sender is the sender_id the client supplied).
Envelopes ==
  [type : MsgTypes, sub : BOOLEAN, target : TargetIds, content : Contents,
   sender : {0, 3}]

NoMsg == [type |-> "none", id |-> 0, sender |-> 0, target |-> 0, content |-> ""]

\* Channel 1 as created by user 1 (member and admin) and joined by user 2.
InitMembers == [ch \in Channels |-> {1, 2}]
InitAdmins == [ch \in Channels |-> {1}]
\* The key the store gives the channel CreateChannel inserts, and the identity
\* the request's context carries (0: none).
NewChannel == 2
Callers == {0} \cup Users
InitAdminRows ==
  [ch \in Channels |-> [u \in Users |-> IF u \in InitAdmins[ch] THEN 1 ELSE 0]]

\* CreateChannel's transaction: where the handler is, the caller's identity
\* and the writes made through tx (channel row, client row, member and admin
\* association).
TxIdle ==
  [pc |-> "idle", user |-> 0, channel |-> FALSE, client |-> FALSE,
   member |-> FALSE, admin |-> FALSE]

\* The limits of the notification goroutines: a peer message's content longer
\* than PeerLimit bytes is cut to PeerKeep bytes, a channel message's content
\* longer than ChannelLimit to ChannelKeep, and "..." is appended.
PeerLimit == 100
PeerKeep == 97
ChannelLimit == 80
ChannelKeep == 77
DotsLen == 3

\* A string: ascii one-byte characters followed by wide two-byte characters
\* (UTF-8), possibly ending in the first byte of a cut two-byte character
\* (half) and in "..." (dots).
Text(n, m) == [ascii |-> n, wide |-> m, half |-> FALSE, dots |-> FALSE]
\* len(s): the bytes of the string.
Bytes(s) ==
  s.ascii + 2 * s.wide + (IF s.half THEN 1 ELSE 0) + (IF s.dots THEN DotsLen ELSE 0)
\* The characters of the string (a cut character is none).
Chars(s) == s.ascii + s.wide + (IF s.dots THEN DotsLen ELSE 0)

\* s[:k] of a string without dots, k <= len(s): a slice of bytes.
Slice(s, k) ==
  IF k <= s.ascii
  THEN Text(k, 0)
  ELSE [ascii |-> s.ascii, wide |-> (k - s.ascii) \div 2,
        half |-> (k - s.ascii) % 2 = 1, dots |-> FALSE]

\* messagePreview: content, or content[:keep] + "..." when len(content) > limit.
TruncateAtLimit(content, limit, keep) ==
  IF Bytes(content) > limit
  THEN [Slice(content, limit) EXCEPT !.dots = TRUE]
  ELSE content
Truncate(content, limit, keep) ==
  IF Bytes(content) > limit
  THEN [Slice(content, keep) EXCEPT !.dots = TRUE]
  ELSE content

\* Message contents around the limits, with up to two wide characters.
PreviewContents == {Text(n, m) : n \in 0..(PeerLimit + 2), m \in 0..2}
NoPreview == [type |-> "none", content |-> Text(0, 0), body |-> Text(0, 0)]

\* Login requests in progress at the same time.
Logins == {1, 2}
\* handleLogin: where the request is, the two token goroutines (run, done),
\* the variables accessToken, refreshToken and tokenErr they write ("" is the
\* empty token, tokenErr TRUE a non-nil error) and the response (0: none yet).
LoginIdle ==
  [pc |-> "idle", a |-> "off", b |-> "off", accessToken |-> "",
   refreshToken |-> "", tokenErr |-> FALSE, resp |-> 0]

\* Push tokens a device may be registered with: a live Expo token, an Expo
\* token the provider no longer knows, and a string that is no Expo token.
Tokens == {"live", "gone", "junk"}
\* expo.NewExponentPushToken accepts the string.
WellFormed(t) == t # "junk"

\* SendUserNotification: where the call is, its user, the tokens it read, the
\* tokens it found invalid, the outcome and the number of calls made so far.
CallIdle ==
  [pc |-> "idle", user |-> 0, tokens |-> {}, invalid |-> {}, success |-> FALSE,
   n |-> 0]

VARIABLES
  \* persisted store
  members,      \* channel_clients: channel -> users whose client row is a member
  admins,       \* channel_admins: channel -> users whose client row is an admin
  clientRows,   \* clients table: users that have a client row
  rows,         \* peer_messages and channel_messages rows
  nextId,       \* next primary key the store assigns to a message row
  adminRows,    \* channel_admins: channel -> user -> number of rows
  tx,           \* CreateChannel: the open transaction and what it holds
  \* Hub
  hubQ,         \* the Hub's inbound event queue
  hubClients,   \* Membership Directory: user -> connections
  hubChannels,  \* Membership Directory: channel -> subscribed connections
  \* connections
  sendQ,        \* client.Send
  closed,       \* client.Send has been closed
  \* tasks of a connection
  conn,         \* HandleWebSocket: "idle" | "open"
  pc,           \* read pump (handleClientMessages)
  cur,          \* read pump: wsMsg after stamping, or the error frame to send
  authz,        \* read pump: the sender was a persisted admin at the check
  pre,          \* channel preload task
  preCh,        \* channel preload task: channels still to subscribe
  wp,           \* write pump
  \* notification goroutines
  spawned,      \* started, SendUserNotification not yet called
  attempts,     \* SendUserNotification calls made
  \* process and history
  crashed,      \* the process panicked (send on a closed channel)
  handoffs,     \* message id -> number of Broadcast* calls made for it
  unauthorized, \* ids of channel rows whose sender was no admin at the check
  lastFanout,   \* the Hub's last broadcast: connections reached and dropped
  refused,      \* (channel, user) pairs AddChannelAdmin answered "already an admin"
  garbled,      \* connection -> frames dropped because they did not decode
  \* notification sender and login handler
  devices,      \* devices table: user -> registered push tokens
  history,      \* notification_histories rows, in insertion order
  call,         \* SendUserNotification: the call in progress
  preview,      \* the messagePreview a notification goroutine computed last
  login         \* handleLogin: the requests in progress

vars ==
  <<members, admins, clientRows, rows, nextId, hubQ, hubClients, hubChannels,
    sendQ, closed, conn, pc, cur, authz, pre, preCh, wp, spawned, attempts,
    crashed, handoffs, unauthorized, lastFanout, adminRows, tx, refused,
    garbled,    devices, history, call, preview, login>>

tableVars == <<members, admins, clientRows, rows, nextId, adminRows>>
storeVars == <<members, admins, clientRows, rows, nextId, adminRows, tx>>
hubVars == <<hubQ, hubClients, hubChannels>>
pumpVars == <<pc, cur, authz>>
preVars == <<pre, preCh>>
notifVars == <<spawned, attempts>>
histVars == <<handoffs, unauthorized, lastFanout, refused, garbled>>
serviceVars == <<devices, history, call, preview, login>>

Init ==
  /\ members = InitMembers
  /\ admins = InitAdmins
  /\ clientRows = {1, 2}
  /\ rows = {}
  /\ nextId = 1
  /\ hubQ = <<>>
  /\ hubClients = [u \in Users |-> {}]
  /\ hubChannels = [ch \in Channels |-> {}]
  /\ sendQ = [c \in Conns |-> <<>>]
  /\ closed = [c \in Conns |-> FALSE]
  /\ conn = [c \in Conns |-> "idle"]
  /\ pc = [c \in Conns |-> "off"]
  /\ cur = [c \in Conns |-> NoMsg]
  /\ pre = [c \in Conns |-> "off"]
  /\ preCh = [c \in Conns |-> {}]
  /\ wp = [c \in Conns |-> "off"]
  /\ spawned = {}
  /\ attempts = {}
  /\ crashed = FALSE
  /\ handoffs = [i \in {} |-> 0]
  /\ authz = [c \in Conns |-> FALSE]
  /\ unauthorized = {}
  /\ lastFanout = [to |-> {}, dropped |-> {}]
  /\ adminRows = InitAdminRows
  /\ tx = TxIdle
  /\ refused = {}
  /\ garbled = [c \in Conns |-> 0]
  /\ devices = [u \in Users |-> {}]
  /\ history = <<>>
  /\ call = CallIdle
  /\ preview = NoPreview
  /\ login = [r \in Logins |-> LoginIdle]


\* The channels the user's client row is a member of (the JOIN query).
ChannelsOf(u) == {ch \in Channels : u \in members[ch] /\ u \in clientRows}

\* --------------------------------------------------------------- Hub

Event(op, c, target, frame) ==
  [op |-> op, conn |-> c, target |-> target, frame |-> frame]

\* A Go map read: a missing key yields the empty set.
Lookup(dir, k) == IF k \in DOMAIN dir THEN dir[k] ELSE {}

\* Hub.Register: the connection is added under its user identity.
HubRegister ==
  /\ ~crashed
  /\ hubQ # <<>>
  /\ Head(hubQ).op = "register"
  /\ LET c == Head(hubQ).conn IN
       hubClients' = [hubClients EXCEPT ![UserOf(c)] = @ \cup {c}]
  /\ hubQ' = Tail(hubQ)
  /\ UNCHANGED <<storeVars, hubChannels, sendQ, closed, conn, pumpVars,
                 preVars, wp, notifVars, crashed, histVars, serviceVars>>

\* Hub.Unregister: the connection leaves its user's set and every channel
\* subscriber set, and its outbound queue is closed.
HubUnregisterStrict ==
  /\ ~crashed
  /\ hubQ # <<>>
  /\ Head(hubQ).op = "unregister"
  /\ LET c == Head(hubQ).conn IN
       /\ hubClients' = [hubClients EXCEPT ![UserOf(c)] = @ \ {c}]
       /\ hubChannels' = [ch \in Channels |-> hubChannels[ch] \ {c}]
       /\ closed' = [closed EXCEPT ![c] = TRUE]
       /\ crashed' = (\E ch \in ChannelsOf(UserOf(c)) : c \notin hubChannels[ch])
  /\ hubQ' = Tail(hubQ)
  /\ UNCHANGED <<storeVars, sendQ, conn, pumpVars, preVars, wp, notifVars,
                 histVars, serviceVars>>
HubUnregister ==
  /\ ~crashed
  /\ hubQ # <<>>
  /\ Head(hubQ).op = "unregister"
  /\ LET c == Head(hubQ).conn IN
       /\ hubClients' = [hubClients EXCEPT ![UserOf(c)] = @ \ {c}]
       /\ hubChannels' = [ch \in Channels |-> hubChannels[ch] \ {c}]
       /\ closed' = [closed EXCEPT ![c] = TRUE]
  /\ hubQ' = Tail(hubQ)
  /\ UNCHANGED <<storeVars, sendQ, conn, pumpVars, preVars, wp, notifVars,
                 crashed, histVars, serviceVars>>

\* Hub.SubscribeToChannel: the connection is added to the channel's
\* subscriber set.
HubSubscribeCatchesUp ==
  /\ ~crashed
  /\ hubQ # <<>>
  /\ Head(hubQ).op = "subscribe"
  /\ LET c == Head(hubQ).conn
         ch == Head(hubQ).target
         old == {r \in rows : r.type = "channel" /\ r.target = ch} IN
       /\ hubChannels' = [hubChannels EXCEPT ![ch] = @ \cup {c}]
       /\ sendQ' = IF old # {} /\ ~closed[c] /\ Len(sendQ[c]) < SendCap
                   THEN [sendQ EXCEPT ![c] = Append(@, CHOOSE r \in old : TRUE)]
                   ELSE sendQ
  /\ hubQ' = Tail(hubQ)
  /\ UNCHANGED <<storeVars, hubClients, closed, conn, pumpVars,
                 preVars, wp, notifVars, crashed, histVars, serviceVars>>
HubSubscribe ==
  /\ ~crashed
  /\ hubQ # <<>>
  /\ Head(hubQ).op = "subscribe"
  /\ LET c == Head(hubQ).conn
         ch == Head(hubQ).target IN
       hubChannels' = [hubChannels EXCEPT ![ch] = @ \cup {c}]
  /\ hubQ' = Tail(hubQ)
  /\ UNCHANGED <<storeVars, hubClients, sendQ, closed, conn, pumpVars,
                 preVars, wp, notifVars, crashed, histVars, serviceVars>>

\* The Hub's enqueue on one connection never blocks: the payload is dropped
\* for a connection whose queue is closed or full.
Enqueue(q, isClosed, m) ==
  IF isClosed \/ Len(q) >= SendCap THEN q ELSE Append(q, m)

\* Fan-out of one payload to a set of connections.
DeliverStopsAtFull(targets, m) ==
  IF \E c \in targets : closed[c] \/ Len(sendQ[c]) >= SendCap
  THEN sendQ
  ELSE [c \in Conns |-> IF c \in targets THEN Append(sendQ[c], m) ELSE sendQ[c]]
Deliver(targets, m) ==
  [c \in Conns |->
     IF c \in targets THEN Enqueue(sendQ[c], closed[c], m) ELSE sendQ[c]]

\* History of one fan-out: who had room and who had the payload dropped.
HasRoom(c) == ~closed[c] /\ Len(sendQ[c]) < SendCap
Outcome(targets) ==
  [to |-> {c \in targets : HasRoom(c)}, dropped |-> {c \in targets : ~HasRoom(c)}]

\* Hub.BroadcastToUser: to every connection registered for the user now.
HubBroadcastToUser ==
  /\ ~crashed
  /\ hubQ # <<>>
  /\ Head(hubQ).op = "toUser"
  /\ sendQ' = Deliver(Lookup(hubClients, Head(hubQ).target), Head(hubQ).frame)
  /\ lastFanout' = Outcome(Lookup(hubClients, Head(hubQ).target))
  /\ hubQ' = Tail(hubQ)
  /\ UNCHANGED <<storeVars, hubClients, hubChannels, closed, conn, pumpVars,
                 preVars, wp, notifVars, crashed, handoffs, unauthorized, refused,
                 garbled,
                 serviceVars>>

\* Hub.BroadcastToChannel: to every connection subscribed to the channel now.
HubBroadcastToChannel ==
  /\ ~crashed
  /\ hubQ # <<>>
  /\ Head(hubQ).op = "toChannel"
  /\ sendQ' = Deliver(Lookup(hubChannels, Head(hubQ).target), Head(hubQ).frame)
  /\ lastFanout' = Outcome(Lookup(hubChannels, Head(hubQ).target))
  /\ hubQ' = Tail(hubQ)
  /\ UNCHANGED <<storeVars, hubClients, hubChannels, closed, conn, pumpVars,
                 preVars, wp, notifVars, crashed, handoffs, unauthorized, refused,
                 garbled,
                 serviceVars>>

\* Handing an event to the Hub (hub.Register <- c, hub.Unregister <- c and the
\* SubscribeToChannel / BroadcastToUser / BroadcastToChannel calls).
HubHasRoom == Len(hubQ) < MaxHubQ
ToHubFront(e) == <<e>> \o hubQ
ToHub(e) == Append(hubQ, e)

\* ------------------------------------------------------- write pump

\* One frame is taken off the queue and written to the transport.
WriteFrame(c) ==
  /\ ~crashed
  /\ wp[c] = "run"
  /\ sendQ[c] # <<>>
  /\ sendQ' = [sendQ EXCEPT ![c] = Tail(@)]
  /\ UNCHANGED <<storeVars, hubVars, closed, conn, pumpVars, preVars, wp,
                 notifVars, crashed, histVars, serviceVars>>

\* Writing a frame fails: the pump ends and closes the transport.
WriteFail(c) ==
  /\ ~crashed
  /\ wp[c] = "run"
  /\ sendQ[c] # <<>>
  /\ sendQ' = [sendQ EXCEPT ![c] = Tail(@)]
  /\ wp' = [wp EXCEPT ![c] = "dead"]
  /\ conn' = [conn EXCEPT ![c] = "closed"]
  /\ UNCHANGED <<storeVars, hubVars, closed, pumpVars, preVars, notifVars,
                 crashed, histVars, serviceVars>>

\* The queue was closed and is drained: the pump ends.
WriteExit(c) ==
  /\ ~crashed
  /\ wp[c] = "run"
  /\ sendQ[c] = <<>>
  /\ closed[c]
  /\ wp' = [wp EXCEPT ![c] = "done"]
  /\ UNCHANGED <<storeVars, hubVars, sendQ, closed, conn, pumpVars, preVars,
                 notifVars, crashed, histVars, serviceVars>>


\* ------------------------------------------------- HandleWebSocket

ConfirmFrame == [NoMsg EXCEPT !.type = "connection_established"]
\* The error frame (type "error: <reason>"); the queue keeps no reason text.
ErrorFrame == [NoMsg EXCEPT !.type = "error"]
\* The validation error the read pump holds until the frame is sent.
Rejected(reason) == [NoMsg EXCEPT !.type = "error", !.content = reason]

\* The transport is upgraded, the client is handed to hub.Register and the
\* write pump, the read pump and the channel preload are started.
HandleWebSocket(c) ==
  /\ ~crashed
  /\ conn[c] = "idle"
  /\ HubHasRoom
  /\ hubQ' = ToHub(Event("register", c, 0, NoMsg))
  /\ conn' = [conn EXCEPT ![c] = "open"]
  /\ wp' = [wp EXCEPT ![c] = "run"]
  /\ pc' = [pc EXCEPT ![c] = "read"]
  /\ pre' = [pre EXCEPT ![c] = "query"]
  /\ UNCHANGED <<storeVars, hubClients, hubChannels, sendQ, closed, cur, authz,
                 preCh, notifVars, crashed, histVars, serviceVars>>

\* The preload's query: on an error the task ends.
PreloadQuery(c) ==
  /\ ~crashed
  /\ pre[c] = "query"
  /\ \E ok \in BOOLEAN :
       IF ok
       THEN /\ pre' = [pre EXCEPT ![c] = "sub"]
            /\ preCh' = [preCh EXCEPT ![c] = ChannelsOf(UserOf(c))]
       ELSE /\ pre' = [pre EXCEPT ![c] = "done"]
            /\ UNCHANGED preCh
  /\ UNCHANGED <<storeVars, hubVars, sendQ, closed, conn, pumpVars, wp,
                 notifVars, crashed, histVars, serviceVars>>

\* One iteration of the subscribe loop (rows come back in key order).
PreloadSubscribe(c) ==
  /\ ~crashed
  /\ pre[c] = "sub"
  /\ preCh[c] # {}
  /\ HubHasRoom
  /\ LET ch == CHOOSE x \in preCh[c] : \A y \in preCh[c] : x <= y IN
       /\ hubQ' = ToHub(Event("subscribe", c, ch, NoMsg))
       /\ preCh' = [preCh EXCEPT ![c] = @ \ {ch}]
  /\ UNCHANGED <<storeVars, hubClients, hubChannels, sendQ, closed, conn,
                 pumpVars, pre, wp, notifVars, crashed, histVars, serviceVars>>

\* client.Send <- frame, as the handler's goroutines do it: a send on a closed
\* channel panics, a send on a full one waits.
SendTwice(c, frame) ==
  IF closed[c]
  THEN crashed' = TRUE /\ UNCHANGED sendQ
  ELSE /\ sendQ' = [sendQ EXCEPT ![c] = Append(Append(@, frame), frame)]
       /\ UNCHANGED crashed
CanSend(c) == closed[c] \/ Len(sendQ[c]) < SendCap
Send(c, frame) ==
  IF closed[c]
  THEN crashed' = TRUE /\ UNCHANGED sendQ
  ELSE sendQ' = [sendQ EXCEPT ![c] = Append(@, frame)] /\ UNCHANGED crashed

\* After the subscribe loop the confirmation frame is sent.
PreloadConfirmEarly(c) ==
  /\ ~crashed
  /\ pre[c] = "sub"
  /\ CanSend(c)
  /\ Send(c, ConfirmFrame)
  /\ pre' = [pre EXCEPT ![c] = "done"]
  /\ UNCHANGED <<storeVars, hubVars, closed, conn, pumpVars, preCh, wp,
                 notifVars, histVars, serviceVars>>
PreloadConfirm(c) ==
  /\ ~crashed
  /\ pre[c] = "sub"
  /\ preCh[c] = {}
  /\ CanSend(c)
  /\ Send(c, ConfirmFrame)
  /\ pre' = [pre EXCEPT ![c] = "done"]
  /\ UNCHANGED <<storeVars, hubVars, closed, conn, pumpVars, preCh, wp,
                 notifVars, histVars, serviceVars>>

\* --------------------------------------------------- validateMessage

\* The admin count query; a failed query leaves count at 0.
AdminCountCached(ch, u, dbOk) ==
  IF ch \in Channels /\ u \in InitAdmins[ch] THEN 1 ELSE 0
AdminCount(ch, u, dbOk) ==
  IF dbOk /\ ch \in Channels /\ u \in admins[ch] /\ u \in clientRows THEN 1 ELSE 0

validateMessageNoContentCheck(msg, senderID, dbOk) ==
  CASE msg.type = "peer" ->
         IF ~msg.sub THEN "peer message is nil"
         ELSE IF msg.target = 0 THEN "invalid receiver ID"
         ELSE "ok"
    [] msg.type = "channel" ->
         IF ~msg.sub THEN "channel message is nil"
         ELSE IF msg.target = 0 THEN "invalid channel ID"
         ELSE IF AdminCount(msg.target, senderID, dbOk) = 0
              THEN "only channel admins can send messages"
         ELSE "ok"
    [] OTHER -> "invalid message type"
validateMessage(msg, senderID, dbOk) ==
  CASE msg.type = "peer" ->
         IF ~msg.sub THEN "peer message is nil"
         ELSE IF msg.target = 0 THEN "invalid receiver ID"
         ELSE IF msg.content = "" THEN "message content cannot be empty"
         ELSE "ok"
    [] msg.type = "channel" ->
         IF ~msg.sub THEN "channel message is nil"
         ELSE IF msg.target = 0 THEN "invalid channel ID"
         ELSE IF msg.content = "" THEN "message content cannot be empty"
         ELSE IF AdminCount(msg.target, senderID, dbOk) = 0
              THEN "only channel admins can send messages"
         ELSE "ok"
    [] OTHER -> "invalid message type"

\* ---------------------------------------------- handleClientMessages

\* The admin count query runs only for a channel message that passed the
\* structural checks; only then can it fail.
QueryOutcomes(msg) ==
  IF msg.type = "channel" /\ msg.sub /\ msg.target # 0 /\ msg.content # ""
  THEN BOOLEAN
  ELSE {TRUE}

\* The switch after validation: a nil sub-message or another type is skipped.
Routed(msg) == msg.type \in {"peer", "channel"} /\ msg.sub

\* wsMsg.PeerMsg.SenderID = client.UserID (and likewise for a channel message).
StampKeepsClientSender(msg, c) ==
  [type |-> msg.type, id |-> 0, sender |-> msg.sender, target |-> msg.target,
   content |-> msg.content]
Stamp(msg, c) ==
  [type |-> msg.type, id |-> 0, sender |-> UserOf(c), target |-> msg.target,
   content |-> msg.content]

\* History: a channel message's sender is in the persisted admin set at the
\* moment validateMessage runs (peer messages need no admin).
IsAdminNow(msg, u) ==
  msg.type = "channel" => (msg.target \in Channels /\ u \in admins[msg.target])

\* Frames that do not decode a client sends on one connection.
MaxGarbled == 1

\* ReadMessage returns a frame that json.Unmarshal rejects: it is logged and
\* the loop continues.
DecodeFailEndsPump(c) ==
  /\ ~crashed
  /\ pc[c] = "read"
  /\ conn[c] = "open"
  /\ garbled[c] < MaxGarbled
  /\ HubHasRoom
  /\ garbled' = [garbled EXCEPT ![c] = @ + 1]
  /\ hubQ' = ToHub(Event("unregister", c, 0, NoMsg))
  /\ pc' = [pc EXCEPT ![c] = "done"]
  /\ UNCHANGED <<storeVars, hubClients, hubChannels, sendQ, closed, conn, cur,
                 authz, preVars, wp, notifVars, crashed, handoffs,
                 unauthorized, lastFanout, refused, serviceVars>>
DecodeFail(c) ==
  /\ ~crashed
  /\ pc[c] = "read"
  /\ conn[c] = "open"
  /\ garbled[c] < MaxGarbled
  /\ garbled' = [garbled EXCEPT ![c] = @ + 1]
  /\ UNCHANGED <<storeVars, hubVars, sendQ, closed, conn, pumpVars, preVars,
                 wp, notifVars, crashed, handoffs, unauthorized, lastFanout,
                 refused, serviceVars>>

\* ReadMessage returns a frame (one of msgs), it is decoded and validated; the
\* clients send frames until the store holds cap rows.
ReadFrameUpTo(c, msgs, cap) ==
  /\ ~crashed
  /\ pc[c] = "read"
  /\ conn[c] = "open"
  /\ nextId <= cap
  /\ \E msg \in msgs : \E dbOk \in QueryOutcomes(msg) :
       IF validateMessage(msg, UserOf(c), dbOk) # "ok"
       THEN /\ pc' = [pc EXCEPT ![c] = "senderr"]
            /\ cur' = [cur EXCEPT ![c] =
                         Rejected(validateMessage(msg, UserOf(c), dbOk))]
            /\ UNCHANGED authz
       ELSE IF Routed(msg)
       THEN /\ pc' = [pc EXCEPT ![c] = "persist"]
            /\ cur' = [cur EXCEPT ![c] = Stamp(msg, c)]
            /\ authz' = [authz EXCEPT ![c] = IsAdminNow(msg, UserOf(c))]
       ELSE UNCHANGED <<pc, cur, authz>>
  /\ UNCHANGED <<storeVars, hubVars, sendQ, closed, conn, preVars, wp,
                 notifVars, crashed, histVars, serviceVars>>

ReadFrame(c, msgs) == ReadFrameUpTo(c, msgs, MaxMsgs)

\* The error frame of a failed validation goes to the sender's own queue.
SendError(c) ==
  /\ ~crashed
  /\ pc[c] = "senderr"
  /\ CanSend(c)
  /\ Send(c, ErrorFrame)
  /\ pc' = [pc EXCEPT ![c] = "read"]
  /\ cur' = [cur EXCEPT ![c] = NoMsg]
  /\ UNCHANGED <<storeVars, hubVars, closed, conn, authz, preVars,
                 wp, notifVars, histVars, serviceVars>>

\* h.db.Create succeeds: the row gets its key.
PersistOk(c) ==
  /\ ~crashed
  /\ pc[c] = "persist"
  /\ rows' = rows \cup {[cur[c] EXCEPT !.id = nextId]}
  /\ cur' = [cur EXCEPT ![c].id = nextId]
  /\ nextId' = nextId + 1
  /\ unauthorized' = unauthorized \cup (IF authz[c] THEN {} ELSE {nextId})
  /\ pc' = [pc EXCEPT ![c] = "notify"]
  /\ UNCHANGED <<members, admins, clientRows, adminRows, tx, hubVars, sendQ,
                 closed, conn, authz, preVars, wp, notifVars, crashed, handoffs,
                 lastFanout, refused, garbled, serviceVars>>

\* h.db.Create fails: logged, the loop continues.
PersistFailKeepsGoing(c) ==
  /\ ~crashed
  /\ pc[c] = "persist"
  /\ pc' = [pc EXCEPT ![c] = "notify"]
  /\ UNCHANGED <<storeVars, hubVars, sendQ, closed, conn, cur, authz, preVars,
                 wp, notifVars, crashed, histVars, serviceVars>>
PersistFail(c) ==
  /\ ~crashed
  /\ pc[c] = "persist"
  /\ pc' = [pc EXCEPT ![c] = "read"]
  /\ cur' = [cur EXCEPT ![c] = NoMsg]
  /\ UNCHANGED <<storeVars, hubVars, sendQ, closed, conn, authz, preVars,
                 wp, notifVars, crashed, histVars, serviceVars>>

\* The members a channel message is notified to: all but the sender.
NotifyTargets(ch, senderID) == {m \in Lookup(members, ch) : m # senderID}

Notif(msg, to) == [id |-> msg.id, type |-> msg.type, to |-> to]

\* Peer message: the sender look-up (its failure is only logged) and the
\* notification goroutine for the receiver.
NotifyPeer(c) ==
  /\ ~crashed
  /\ pc[c] = "notify"
  /\ cur[c].type = "peer"
  /\ spawned' = spawned \cup {Notif(cur[c], cur[c].target)}
  /\ pc' = [pc EXCEPT ![c] = "bcast"]
  /\ UNCHANGED <<storeVars, hubVars, sendQ, closed, conn, cur, authz,
                 preVars, wp, attempts, crashed, histVars, serviceVars>>

\* Channel message: the channel look-up, the sender look-up and the member
\* list; a failed channel or member look-up continues the loop.
NotifyChannel(c) ==
  /\ ~crashed
  /\ pc[c] = "notify"
  /\ cur[c].type = "channel"
  /\ \E channelOk \in BOOLEAN, membersOk \in BOOLEAN :
       IF channelOk /\ membersOk
       THEN /\ spawned' = spawned \cup
                 {Notif(cur[c], m) : m \in NotifyTargets(cur[c].target, UserOf(c))}
            /\ pc' = [pc EXCEPT ![c] = "bcast"]
            /\ UNCHANGED cur
       ELSE /\ pc' = [pc EXCEPT ![c] = "read"]
            /\ cur' = [cur EXCEPT ![c] = NoMsg]
            /\ UNCHANGED spawned
  /\ UNCHANGED <<storeVars, hubVars, sendQ, closed, conn, authz, preVars,
                 wp, attempts, crashed, histVars, serviceVars>>

Count(id) == IF id \in DOMAIN handoffs THEN handoffs[id] ELSE 0

\* The marshalled message is handed to BroadcastToUser / BroadcastToChannel.
HandOffToSender(c) ==
  /\ HubHasRoom
  /\ hubQ' = ToHub(Event(IF cur[c].type = "peer" THEN "toUser" ELSE "toChannel",
                         c, cur[c].sender, cur[c]))
  /\ handoffs' = [i \in DOMAIN handoffs \cup {cur[c].id} |->
                    IF i = cur[c].id THEN Count(i) + 1 ELSE handoffs[i]]
HandOffJumpsQueue(c) ==
  /\ HubHasRoom
  /\ hubQ' = <<Event(IF cur[c].type = "peer" THEN "toUser" ELSE "toChannel",
                     c, cur[c].target, cur[c])>> \o hubQ
  /\ handoffs' = [i \in DOMAIN handoffs \cup {cur[c].id} |->
                    IF i = cur[c].id THEN Count(i) + 1 ELSE handoffs[i]]
HandOff(c) ==
  /\ HubHasRoom
  /\ hubQ' = ToHub(Event(IF cur[c].type = "peer" THEN "toUser" ELSE "toChannel",
                         c, cur[c].target, cur[c]))
  /\ handoffs' = [i \in DOMAIN handoffs \cup {cur[c].id} |->
                    IF i = cur[c].id THEN Count(i) + 1 ELSE handoffs[i]]

Broadcast(c) ==
  /\ ~crashed
  /\ pc[c] = "bcast"
  /\ HandOff(c)
  /\ pc' = [pc EXCEPT ![c] = "read"]
  /\ cur' = [cur EXCEPT ![c] = NoMsg]
  /\ UNCHANGED <<storeVars, hubClients, hubChannels, sendQ, closed, conn,
                 authz, preVars, wp, notifVars, crashed, unauthorized,
                 lastFanout, refused, garbled, serviceVars>>

\* ReadMessage fails: the loop ends, the deferred function hands the client
\* to hub.Unregister and closes the transport.
ReadError(c) ==
  /\ ~crashed
  /\ pc[c] = "read"
  /\ HubHasRoom
  /\ hubQ' = ToHub(Event("unregister", c, 0, NoMsg))
  /\ pc' = [pc EXCEPT ![c] = "done"]
  /\ UNCHANGED <<storeVars, hubClients, hubChannels, sendQ, closed, conn, cur,
                 authz, preVars, wp, notifVars, crashed, histVars,
                 serviceVars>>

\* A notification goroutine calls SendUserNotification.
Dispatch(n) ==
  /\ ~crashed
  /\ n \in spawned
  /\ spawned' = spawned \ {n}
  /\ attempts' = attempts \cup {n}
  /\ UNCHANGED <<storeVars, hubVars, sendQ, closed, conn, pumpVars, preVars,
                 wp, crashed, histVars, serviceVars>>

\* ------------------------------------------- notification preview

\* The goroutine of a peer message computes its preview.
PreviewPeer(content) ==
  /\ ~crashed
  /\ preview' = [type |-> "peer", content |-> content,
                 body |-> Truncate(content, PeerLimit, PeerKeep)]
  /\ UNCHANGED <<storeVars, hubVars, sendQ, closed, conn, pumpVars, preVars,
                 wp, notifVars, crashed, histVars, devices, history, call,
                 login>>

\* The goroutine of a channel message computes its preview.
PreviewChannel(content) ==
  /\ ~crashed
  /\ preview' = [type |-> "channel", content |-> content,
                 body |-> Truncate(content, ChannelLimit, ChannelKeep)]
  /\ UNCHANGED <<storeVars, hubVars, sendQ, closed, conn, pumpVars, preVars,
                 wp, notifVars, crashed, histVars, devices, history, call,
                 login>>

\* ------------------------------------------- notification sender

\* Calls of SendUserNotification made in one run.
MaxCalls == 2

\* A device registers a push token for its user (before notifications start).
RegisterDevice(u, t) ==
  /\ ~crashed
  /\ call.pc = "idle"
  /\ call.n = 0
  /\ t \notin devices[u]
  /\ devices' = [devices EXCEPT ![u] = @ \cup {t}]
  /\ UNCHANGED <<storeVars, hubVars, sendQ, closed, conn, pumpVars, preVars,
                 wp, notifVars, crashed, histVars, history, call, preview,
                 login>>

\* SendUserNotification is called: the user's devices are read.  A failed
\* query and a user without devices end the call there.
SendUserNotification(u) ==
  /\ ~crashed
  /\ call.pc = "idle"
  /\ call.n < MaxCalls
  /\ \E dbOk \in BOOLEAN :
       call' = IF dbOk /\ devices[u] # {}
               THEN [pc |-> "convert", user |-> u, tokens |-> devices[u],
                     invalid |-> {}, success |-> FALSE, n |-> call.n + 1]
               ELSE [pc |-> "idle", user |-> u, tokens |-> {}, invalid |-> {},
                     success |-> dbOk, n |-> call.n + 1]
  /\ UNCHANGED <<storeVars, hubVars, sendQ, closed, conn, pumpVars, preVars,
                 wp, notifVars, crashed, histVars, devices, history, preview,
                 login>>

\* sendExpoNotificationSDK: the tokens are converted; without a valid token
\* it returns "no valid push tokens found".
ConvertTokens ==
  /\ ~crashed
  /\ call.pc = "convert"
  /\ LET bad == {t \in call.tokens : ~WellFormed(t)} IN
       call' = [call EXCEPT !.invalid = bad,
                            !.pc = IF call.tokens \ bad = {}
                                   THEN "history" ELSE "publish"]
  /\ UNCHANGED <<storeVars, hubVars, sendQ, closed, conn, pumpVars, preVars,
                 wp, notifVars, crashed, histVars, devices, history, preview,
                 login>>

\* cleanupInvalidTokens: one DELETE per token, a failed one is only logged.
CleanedUp(deleted) == [u \in Users |-> devices[u] \ deleted]

\* expoClient.Publish fails: the function returns at once.
PublishError ==
  /\ ~crashed
  /\ call.pc = "publish"
  /\ call' = [call EXCEPT !.pc = "history", !.success = FALSE]
  /\ UNCHANGED <<storeVars, hubVars, sendQ, closed, conn, pumpVars, preVars,
                 wp, notifVars, crashed, histVars, devices, history, preview,
                 login>>

\* expoClient.Publish answers: the response is validated (a token the
\* provider does not know fails the validation) and the tokens found invalid
\* at conversion are cleaned up.
Publish ==
  /\ ~crashed
  /\ call.pc = "publish"
  /\ \E deleted \in SUBSET call.invalid :
       devices' = CleanedUp(deleted)
  /\ call' = [call EXCEPT !.pc = "history",
                          !.success = "gone" \notin call.tokens]
  /\ UNCHANGED <<storeVars, hubVars, sendQ, closed, conn, pumpVars, preVars,
                 wp, notifVars, crashed, histVars, history, preview, login>>

\* The history record is created; a failed insert is only logged.
WriteHistory ==
  /\ ~crashed
  /\ call.pc = "history"
  /\ \E dbOk \in BOOLEAN :
       history' = IF dbOk
                  THEN Append(history,
                              [user |-> call.user,
                               status |-> IF call.success
                                          THEN "sent" ELSE "failed"])
                  ELSE history
  /\ call' = [call EXCEPT !.pc = "idle"]
  /\ UNCHANGED <<storeVars, hubVars, sendQ, closed, conn, pumpVars, preVars,
                 wp, notifVars, crashed, histVars, devices, preview, login>>

\* ------------------------------------------------------- handleLogin

\* The request body is decoded and the user looked up by e-mail.
LoginRequest(r) ==
  /\ ~crashed
  /\ login[r].pc = "idle"
  /\ \E outcome \in {"bad body", "no user", "found"} :
       login' = [login EXCEPT ![r] =
                   IF outcome = "bad body"
                   THEN [@ EXCEPT !.pc = "done", !.resp = 400]
                   ELSE IF outcome = "no user"
                   THEN [@ EXCEPT !.pc = "done", !.resp = 401]
                   ELSE [@ EXCEPT !.pc = "password"]]
  /\ UNCHANGED <<storeVars, hubVars, sendQ, closed, conn, pumpVars, preVars,
                 wp, notifVars, crashed, histVars, devices, history, call,
                 preview>>

\* The password check answers, or the two seconds pass first; after a good
\* password the two token goroutines are started.
LoginPassword(r) ==
  /\ ~crashed
  /\ login[r].pc = "password"
  /\ \E outcome \in {"verified", "wrong", "timeout"} :
       login' = [login EXCEPT ![r] =
                   IF outcome = "wrong"
                   THEN [@ EXCEPT !.pc = "done", !.resp = 401]
                   ELSE IF outcome = "timeout"
                   THEN [@ EXCEPT !.pc = "done", !.resp = 408]
                   ELSE [@ EXCEPT !.pc = "tokens", !.a = "run", !.b = "run"]]
  /\ UNCHANGED <<storeVars, hubVars, sendQ, closed, conn, pumpVars, preVars,
                 wp, notifVars, crashed, histVars, devices, history, call,
                 preview>>

\* accessToken, tokenErr = generateJWT(user.ID, 7500).
GenerateAccess(r) ==
  /\ ~crashed
  /\ login[r].a = "run"
  /\ \E ok \in BOOLEAN :
       login' = [login EXCEPT ![r] =
                   [@ EXCEPT !.a = "done",
                             !.accessToken = IF ok THEN "jwt" ELSE "",
                             !.tokenErr = ~ok]]
  /\ UNCHANGED <<storeVars, hubVars, sendQ, closed, conn, pumpVars, preVars,
                 wp, notifVars, crashed, histVars, devices, history, call,
                 preview>>

\* refreshToken, tokenErr = generateRefreshToken(user.ID).
GenerateRefresh(r) ==
  /\ ~crashed
  /\ login[r].b = "run"
  /\ \E ok \in BOOLEAN :
       login' = [login EXCEPT ![r] =
                   [@ EXCEPT !.b = "done",
                             !.refreshToken = IF ok THEN "refresh" ELSE "",
                             !.tokenErr = ~ok]]
  /\ UNCHANGED <<storeVars, hubVars, sendQ, closed, conn, pumpVars, preVars,
                 wp, notifVars, crashed, histVars, devices, history, call,
                 preview>>

\* wg.Wait() returns: tokenErr decides between 500 and 200.
LoginRespond(r) ==
  /\ ~crashed
  /\ login[r].pc = "tokens"
  /\ login[r].a = "done"
  /\ login[r].b = "done"
  /\ login' = [login EXCEPT ![r] =
                 [@ EXCEPT !.pc = "done",
                           !.resp = IF login[r].tokenErr THEN 500 ELSE 200]]
  /\ UNCHANGED <<storeVars, hubVars, sendQ, closed, conn, pumpVars, preVars,
                 wp, notifVars, crashed, histVars, devices, history, call,
                 preview>>

\* ------------------------------------------- channel administration

\* CreateChannel, one step per statement on tx.  A failed statement rolls the
\* transaction back: what was written through it is discarded.

\* tx.Create(&channel).
CreateChannelInsert(u) ==
  /\ ~crashed
  /\ tx.pc = "idle"
  /\ NewChannel \notin DOMAIN members
  /\ \E ok \in BOOLEAN :
       tx' = IF ok
             THEN [TxIdle EXCEPT !.pc = "identity", !.user = u, !.channel = TRUE]
             ELSE TxIdle
  /\ UNCHANGED <<tableVars, hubVars, sendQ, closed, conn, pumpVars, preVars,
                 wp, notifVars, crashed, histVars, serviceVars>>

\* utils.GetUserIDFromContext.
CreateChannelIdentity ==
  /\ ~crashed
  /\ tx.pc = "identity"
  /\ tx' = IF tx.user = 0 THEN TxIdle ELSE [tx EXCEPT !.pc = "client"]
  /\ UNCHANGED <<tableVars, hubVars, sendQ, closed, conn, pumpVars, preVars,
                 wp, notifVars, crashed, histVars, serviceVars>>

\* tx.FirstOrCreate(&client, ...).
CreateChannelClient ==
  /\ ~crashed
  /\ tx.pc = "client"
  /\ \E ok \in BOOLEAN :
       tx' = IF ok THEN [tx EXCEPT !.pc = "member", !.client = TRUE] ELSE TxIdle
  /\ UNCHANGED <<tableVars, hubVars, sendQ, closed, conn, pumpVars, preVars,
                 wp, notifVars, crashed, histVars, serviceVars>>

\* tx.Model(&channel).Association("Clients").Append(&client).
CreateChannelMemberDirect ==
  /\ ~crashed
  /\ tx.pc = "member"
  /\ tx' = [tx EXCEPT !.pc = "admin"]
  /\ members' = [ch \in DOMAIN members \cup {NewChannel} |->
                   IF ch = NewChannel THEN {tx.user} ELSE members[ch]]
  /\ UNCHANGED <<admins, clientRows, rows, nextId, adminRows, hubVars, sendQ,
                 closed, conn, pumpVars, preVars, wp, notifVars, crashed,
                 histVars, serviceVars>>
CreateChannelMember ==
  /\ ~crashed
  /\ tx.pc = "member"
  /\ \E ok \in BOOLEAN :
       tx' = IF ok THEN [tx EXCEPT !.pc = "admin", !.member = TRUE] ELSE TxIdle
  /\ UNCHANGED <<tableVars, hubVars, sendQ, closed, conn, pumpVars, preVars,
                 wp, notifVars, crashed, histVars, serviceVars>>

\* tx.Model(&channel).Association("Admins").Append(&client).
CreateChannelAdmins ==
  /\ ~crashed
  /\ tx.pc = "admin"
  /\ \E ok \in BOOLEAN :
       tx' = IF ok THEN [tx EXCEPT !.pc = "commit", !.admin = TRUE] ELSE TxIdle
  /\ UNCHANGED <<tableVars, hubVars, sendQ, closed, conn, pumpVars, preVars,
                 wp, notifVars, crashed, histVars, serviceVars>>

\* The rows a committed transaction leaves for the new channel.
Written(flag, u) == IF flag THEN {u} ELSE {}

\* tx.Commit(): the writes made through tx reach the store, or none does.
CreateChannelCommit ==
  /\ ~crashed
  /\ tx.pc = "commit"
  /\ \E ok \in BOOLEAN :
       IF ok /\ tx.channel
       THEN /\ members' = [ch \in DOMAIN members \cup {NewChannel} |->
                             IF ch = NewChannel
                             THEN Written(tx.member, tx.user)
                             ELSE members[ch]]
            /\ admins' = [ch \in DOMAIN admins \cup {NewChannel} |->
                            IF ch = NewChannel
                            THEN Written(tx.admin, tx.user)
                            ELSE admins[ch]]
            /\ adminRows' = [ch \in DOMAIN adminRows \cup {NewChannel} |->
                               IF ch = NewChannel
                               THEN [u \in Users |->
                                       IF tx.admin /\ u = tx.user THEN 1 ELSE 0]
                               ELSE adminRows[ch]]
            /\ clientRows' = clientRows \cup Written(tx.client, tx.user)
       ELSE UNCHANGED <<members, admins, adminRows, clientRows>>
  /\ tx' = TxIdle
  /\ UNCHANGED <<rows, nextId, hubVars, sendQ, closed, conn, pumpVars, preVars,
                 wp, notifVars, crashed, histVars, serviceVars>>

\* The "already an admin" query: the channel_admins rows of the pair.
AdminRowCountNone(ch, u) == 0
AdminRowCount(ch, u) == adminRows[ch][u]

\* AddChannelAdmin: the client row is found or created and, unless it is an
\* admin already, inserted into channel_admins (one transaction).
AddChannelAdmin(ch, u) ==
  /\ ~crashed
  /\ AdminRowCount(ch, u) = 0
  /\ clientRows' = clientRows \cup {u}
  /\ admins' = [admins EXCEPT ![ch] = @ \cup {u}]
  /\ adminRows' = [adminRows EXCEPT ![ch][u] = @ + 1]
  /\ UNCHANGED <<members, rows, nextId, tx, hubVars, sendQ, closed, conn,
                 pumpVars, preVars, wp, notifVars, crashed, histVars,
                 serviceVars>>

\* AddChannelAdmin for a pair that has a row: the transaction is rolled back
\* and the reply is "User is already an admin".
AddChannelAdminRefused(ch, u) ==
  /\ ~crashed
  /\ AdminRowCount(ch, u) > 0
  /\ refused' = refused \cup {<<ch, u>>}
  /\ UNCHANGED <<storeVars, hubVars, sendQ, closed, conn, pumpVars, preVars,
                 wp, notifVars, crashed, handoffs, unauthorized, lastFanout,
                 garbled,
                 serviceVars>>

\* RemoveChannelAdmin: the client row must exist; the association is deleted.
RemoveChannelAdmin(ch, u) ==
  /\ ~crashed
  /\ u \in clientRows
  /\ admins' = [admins EXCEPT ![ch] = @ \ {u}]
  /\ adminRows' = [adminRows EXCEPT ![ch][u] = 0]
  /\ UNCHANGED <<members, clientRows, rows, nextId, tx, hubVars, sendQ, closed,
                 conn, pumpVars, preVars, wp, notifVars, crashed, histVars,
                 serviceVars>>

\* JoinChannel: the client row is found or created and appended to the
\* channel's members.
JoinChannelSubscribes(ch, u) ==
  /\ ~crashed
  /\ clientRows' = clientRows \cup {u}
  /\ members' = [members EXCEPT ![ch] = @ \cup {u}]
  /\ hubChannels' = [hubChannels EXCEPT ![ch] = @ \cup hubClients[u]]
  /\ UNCHANGED <<admins, adminRows, rows, nextId, tx, hubQ, hubClients, sendQ,
                 closed, conn, pumpVars, preVars, wp, notifVars, crashed,
                 histVars, serviceVars>>
JoinChannel(ch, u) ==
  /\ ~crashed
  /\ clientRows' = clientRows \cup {u}
  /\ members' = [members EXCEPT ![ch] = @ \cup {u}]
  /\ UNCHANGED <<admins, adminRows, rows, nextId, tx, hubVars, sendQ, closed,
                 conn, pumpVars, preVars, wp, notifVars, crashed, histVars,
                 serviceVars>>

\* ------------------------------------------------------ specification

\* The Hub's coordination loop.
HubNext ==
  \/ HubRegister
  \/ HubUnregister
  \/ HubSubscribe
  \/ HubBroadcastToUser
  \/ HubBroadcastToChannel

\* A connection's handler, preload task, write pump and the end of its read pump.
Life(c) ==
  \/ HandleWebSocket(c)
  \/ PreloadQuery(c)
  \/ PreloadSubscribe(c)
  \/ PreloadConfirm(c)
  \/ ReadError(c)
  \/ WriteFrame(c)
  \/ WriteExit(c)

\* The read pump's handling of inbound frames.
Pump(c) ==
  \/ ReadFrame(c, Envelopes)
  \/ SendError(c)
  \/ PersistOk(c)
  \/ PersistFail(c)
  \/ NotifyPeer(c)
  \/ NotifyChannel(c)
  \/ Broadcast(c)

\* A connection that stays open: handler, preload task and write pump.
Up(c) ==
  \/ HandleWebSocket(c)
  \/ PreloadQuery(c)
  \/ PreloadSubscribe(c)
  \/ PreloadConfirm(c)
  \/ WriteFrame(c)

\* Peer envelopes that pass validation.
GoodPeer ==
  {m \in Envelopes : m.type = "peer" /\ m.sub /\ m.target # 0 /\ m.content # ""}

\* The read pump of a client that sends well-formed peer messages only.
PumpPeer(c) ==
  \/ ReadFrame(c, GoodPeer)
  \/ PersistOk(c)
  \/ PersistFail(c)
  \/ NotifyPeer(c)
  \/ Broadcast(c)

\* Connection lifecycle: connections 1 (user 1, the channel's admin) and 2
\* (user 2, a member) open and close; connection 1 sends frames of every kind.
Next ==
  \/ HubNext
  \/ Life(1)
  \/ Life(2)
  \/ Pump(1)

Spec == Init /\ [][Next]_vars

\* Fan-out: connection 1 (user 1) sends peer messages, connections 2 and 3
\* (both user 2) receive; the connections stay open.
NextFan ==
  \/ HubRegister
  \/ HubSubscribe
  \/ HubBroadcastToUser
  \/ Up(1)
  \/ Up(2)
  \/ Up(3)
  \/ PumpPeer(1)

SpecFan == Init /\ [][NextFan]_vars

\* Channel posting: connection 1 sends frames of every kind while the channel's
\* admins and members change and the notification goroutines run.
NextChan ==
  \/ HubRegister
  \/ HubSubscribe
  \/ HubBroadcastToUser
  \/ HubBroadcastToChannel
  \/ Up(1)
  \/ Pump(1)
  \/ \E n \in spawned : Dispatch(n)
  \/ \E ch \in Channels, u \in Users : AddChannelAdmin(ch, u)
  \/ \E ch \in Channels, u \in Users : RemoveChannelAdmin(ch, u)
  \/ \E ch \in Channels, u \in Users : JoinChannel(ch, u)

SpecChan == Init /\ [][NextChan]_vars

\* Frames of a type the validator does not know.
BadFrames == {m \in Envelopes : m.type = "bogus"}

\* ReadMessage fails because the transport has been closed.
ReadErrorOnClosed(c) == conn[c] = "closed" /\ ReadError(c)

\* A failing transport: connection 1 sends frames that are rejected, its write
\* pump may fail, and every task that can run does run.
NextLive ==
  \/ HubRegister
  \/ HubUnregister
  \/ HubSubscribe
  \/ Life(1)
  \/ WriteFail(1)
  \/ ReadFrame(1, BadFrames)
  \/ SendError(1)

FairLive ==
  /\ WF_vars(HubRegister)
  /\ WF_vars(HubUnregister)
  /\ WF_vars(HubSubscribe)
  /\ WF_vars(PreloadQuery(1))
  /\ WF_vars(PreloadSubscribe(1))
  /\ WF_vars(PreloadConfirm(1))
  /\ WF_vars(SendError(1))
  /\ WF_vars(WriteFrame(1))
  /\ WF_vars(WriteExit(1))
  /\ WF_vars(ReadErrorOnClosed(1))

SpecLive == Init /\ [][NextLive]_vars /\ FairLive

\* Well-formed messages of user 1 to user 2 and to channel 1.
OrderedFrames ==
  {m \in Envelopes :
     /\ m.sub /\ m.content = "hi" /\ m.sender = 0
     /\ \/ m.type = "peer" /\ m.target = 2
        \/ m.type = "channel" /\ m.target = 1}

\* The sender of the ordering scenario sends one message more.
OrderMsgs == MaxMsgs + 1

\* Ordering: connection 1 sends several messages to user 2 and to channel 1,
\* connection 2 (user 2, a member) receives; the connections stay open.
NextOrder ==
  \/ HubRegister
  \/ HubSubscribe
  \/ HubBroadcastToUser
  \/ HubBroadcastToChannel
  \/ Up(1)
  \/ Up(2)
  \/ ReadFrameUpTo(1, OrderedFrames, OrderMsgs)
  \/ SendError(1)
  \/ PersistOk(1)
  \/ NotifyPeer(1)
  \/ NotifyChannel(1)
  \/ Broadcast(1)

SpecOrder == Init /\ [][NextOrder]_vars

\* Channel administration: channels are created, joined and given admins by
\* any caller; the store alone changes.
NextAdmin ==
  \/ \E u \in Callers : CreateChannelInsert(u)
  \/ CreateChannelIdentity
  \/ CreateChannelClient
  \/ CreateChannelMember
  \/ CreateChannelAdmins
  \/ CreateChannelCommit
  \/ \E ch \in Channels, u \in Users : AddChannelAdmin(ch, u)
  \/ \E ch \in Channels, u \in Users : AddChannelAdminRefused(ch, u)
  \/ \E ch \in Channels, u \in Users : RemoveChannelAdmin(ch, u)
  \/ \E ch \in Channels, u \in Users : JoinChannel(ch, u)

SpecAdmin == Init /\ [][NextAdmin]_vars

\* Reading: connection 1 opens, sends frames of every kind, among them frames
\* that do not decode, and closes.
NextRead ==
  \/ HubNext
  \/ Life(1)
  \/ DecodeFail(1)
  \/ Pump(1)

SpecRead == Init /\ [][NextRead]_vars

\* Well-formed messages of user 1 to channel 1.
ChannelFrames == {m \in OrderedFrames : m.type = "channel"}

\* Joining: user 3 holds connections 4 and 5, opened at any time, and joins
\* channel 1 at any time, while connection 1 (user 1, the admin) posts to the
\* channel.
NextJoin ==
  \/ HubRegister
  \/ HubSubscribe
  \/ HubBroadcastToChannel
  \/ HandleWebSocket(1)
  \/ ReadFrame(1, ChannelFrames)
  \/ PersistOk(1)
  \/ NotifyChannel(1)
  \/ Broadcast(1)
  \/ Up(4)
  \/ Up(5)
  \/ JoinChannel(1, 3)

SpecJoin == Init /\ [][NextJoin]_vars

\* Login: the requests run side by side, their goroutines in any order.
NextLogin ==
  \E r \in Logins :
    \/ LoginRequest(r)
    \/ LoginPassword(r)
    \/ GenerateAccess(r)
    \/ GenerateRefresh(r)
    \/ LoginRespond(r)

SpecLogin == Init /\ [][NextLogin]_vars

\* Previews: the notification goroutines are given contents of every length.
NextPreview ==
  \/ \E content \in PreviewContents : PreviewPeer(content)
  \/ \E content \in PreviewContents : PreviewChannel(content)

SpecPreview == Init /\ [][NextPreview]_vars

\* Notification sender: devices register tokens of every kind, then
\* SendUserNotification is called for any user.
NextNotify ==
  \/ \E u \in Users, t \in Tokens : RegisterDevice(u, t)
  \/ \E u \in Users : SendUserNotification(u)
  \/ ConvertTokens
  \/ PublishError
  \/ Publish
  \/ WriteHistory

SpecNotify == Init /\ [][NextNotify]_vars

\* ------------------------------------------------------------ properties

\* The step in which the Hub processes the broadcast at the head of its queue.
HubBroadcastStep(op) ==
  /\ hubQ # <<>>
  /\ Head(hubQ).op = op
  /\ hubQ' = Tail(hubQ)

\* The connections a queued broadcast is addressed to when the Hub takes it.
TargetsOf(e) ==
  IF e.op = "toUser" THEN Lookup(hubClients, e.target)
  ELSE Lookup(hubChannels, e.target)

Absent(c) ==
  /\ c \notin hubClients[UserOf(c)]
  /\ \A ch \in Channels : c \notin hubChannels[ch]

\* C1: no goroutine ever sends on a connection's outbound queue after the Hub
\* has processed that connection's Unregister and closed the queue (a send on
\* a closed queue panics: it must be unreachable).
C1_NoSendOnClosedQueue == ~crashed

\* C2: every connection in a channel's subscriber set is also in its user's
\* connection set.
C2_NoOrphanSubscriber ==
  \A ch \in Channels : \A c \in hubChannels[ch] : c \in hubClients[UserOf(c)]

\* C4: once the Hub has processed Unregister(C), C is in no user's connection
\* set and in no channel's subscriber set, and nothing is enqueued to C any more.
C4_UnregisteredStaysAbsent ==
  /\ [](\A c \in Conns : closed[c] => Absent(c))
  /\ [][\A c \in Conns : closed[c] => Len(sendQ'[c]) <= Len(sendQ[c])]_vars

\* C7: in one broadcast the payload is dropped exactly for the recipients whose
\* queue is full or closed, every recipient with room gets it appended, and the
\* Hub goes on (it is never blocked by a full or closed queue, and does not panic).
C7_DropIsolated ==
  /\ [][\A op \in {"toUser", "toChannel"} :
          HubBroadcastStep(op) =>
            /\ \A c \in TargetsOf(Head(hubQ)) :
                 sendQ'[c] = IF HasRoom(c)
                             THEN Append(sendQ[c], Head(hubQ).frame)
                             ELSE sendQ[c]
            /\ ~crashed']_vars
  /\ []((~crashed /\ hubQ # <<>> /\ Head(hubQ).op \in {"toUser", "toChannel"})
          => ENABLED (HubBroadcastToUser \/ HubBroadcastToChannel))

\* C7 witness: one broadcast reached a connection and was dropped for another.
C7_Witness == lastFanout.to # {} /\ lastFanout.dropped # {}

\* The frames of a given type waiting in a connection's outbound queue.
Queued(c, type) ==
  {sendQ[c][i] : i \in {j \in 1..Len(sendQ[c]) : sendQ[c][j].type = type}}

\* The broadcasts waiting in the Hub's queue.
Pending(op) == {hubQ[i] : i \in {j \in 1..Len(hubQ) : hubQ[j].op = op}}

\* C3: BroadcastToUser(U, m) puts m on the queue of every connection registered
\* for U (the Hub's enqueue: dropped where the queue has no room) and on no
\* other connection; a peer frame therefore only ever sits on a connection of
\* its receiver, and with no connection registered for U nothing is enqueued
\* and the Hub keeps nothing of m.
C3_UserFanout ==
  /\ [](\A c \in Conns : \A f \in Queued(c, "peer") : f.target = UserOf(c))
  /\ [][HubBroadcastStep("toUser") =>
          /\ \A c \in Conns :
               sendQ'[c] =
                 IF c \in Lookup(hubClients, Head(hubQ).target) /\ HasRoom(c)
                 THEN Append(sendQ[c], Head(hubQ).frame)
                 ELSE sendQ[c]
          /\ UNCHANGED <<hubClients, hubChannels>>]_vars

\* C3 witness: a peer message reached both connections of user 2 and not the
\* registered connection of user 1.
C3_Witness ==
  /\ lastFanout.to = {2, 3}
  /\ 1 \in hubClients[1]
  /\ Queued(1, "peer") = {}
  /\ Queued(2, "peer") # {}
  /\ Queued(3, "peer") # {}

\* C8 as stated: every peer message that passed validation gets a row with the
\* connection's user as sender, the receiver and the content.
C8_EveryAcceptedPeerStored ==
  [][\A c \in Conns :
       (pc[c] = "persist" /\ cur[c].type = "peer" /\ pc'[c] # "persist") =>
         \E r \in rows' :
           /\ r.type = "peer"
           /\ r.sender = UserOf(c)
           /\ r.target = cur[c].target
           /\ r.content = cur[c].content]_vars

\* C8 amended: the message a pump accepts is stamped with the connection's
\* user; when its save succeeds the row has that sender, the receiver and the
\* content; the saved message is handed to BroadcastToUser(receiver) as it
\* was stored, and the Hub enqueues that frame on every connection registered
\* for the receiver that has room.
C8_SavedPeerStoredAndFannedOut ==
  /\ [][\A c \in Conns :
          (pc[c] = "read" /\ pc'[c] = "persist") => cur'[c].sender = UserOf(c)]_vars
  /\ [][\A c \in Conns :
          (pc[c] = "persist" /\ cur[c].type = "peer" /\ pc'[c] = "notify") =>
            rows' = rows \cup
              {[type |-> "peer", id |-> nextId, sender |-> UserOf(c),
                target |-> cur[c].target, content |-> cur[c].content]}]_vars
  /\ [][\A c \in Conns :
          (pc[c] \in {"notify", "bcast"} /\ cur[c].type = "peer"
             /\ pc'[c] \notin {"notify", "bcast"}) =>
            /\ cur[c] \in rows
            /\ hubQ' = Append(hubQ, Event("toUser", c, cur[c].target, cur[c]))]_vars
  /\ [](\A e \in Pending("toUser") : e.frame \in rows /\ e.target = e.frame.target)
  /\ [](\A c \in Conns : \A f \in Queued(c, "peer") :
          f \in rows /\ f.target = UserOf(c))
  /\ [][HubBroadcastStep("toUser") =>
          \A c \in Lookup(hubClients, Head(hubQ).target) :
            HasRoom(c) => sendQ'[c] = Append(sendQ[c], Head(hubQ).frame)]_vars

\* C8 witness: a stored peer message from user 1 to user 2 sits, as stored, on
\* both connections of user 2.
C8_Witness ==
  \E r \in rows :
    /\ r.type = "peer" /\ r.sender = 1 /\ r.target = 2 /\ r.content = "hi"
    /\ r \in Queued(2, "peer")
    /\ r \in Queued(3, "peer")

\* C5: only messages that pass validation are stored, handed to a broadcast or
\* notified: every row has a known type, a non-zero receiver or channel and a
\* non-empty content, every channel row's sender was an admin when checked, and
\* hand-offs and notifications exist for stored rows only.
C5_InvalidNeverProcessed ==
  /\ \A r \in rows :
       r.type \in {"peer", "channel"} /\ r.target # 0 /\ r.content # ""
  /\ unauthorized = {}
  /\ \A id \in DOMAIN handoffs : \E r \in rows : r.id = id
  /\ \A e \in Pending("toUser") \cup Pending("toChannel") : e.frame \in rows
  /\ \A n \in spawned \cup attempts : \E r \in rows : r.id = n.id
  /\ \A c \in Conns : pc[c] = "senderr" => cur[c].type = "error"

\* C5 witness: a frame with empty content was rejected and nothing was stored.
C5_Witness ==
  /\ pc[1] = "senderr"
  /\ cur[1].content = "message content cannot be empty"
  /\ rows = {}

\* C6: a channel message is accepted only if its sender is in the persisted
\* admin set at the moment it is checked, whatever AddChannelAdmin and
\* RemoveChannelAdmin did before, and no channel row exists whose sender was
\* not an admin at its check.
C6_AdminCheckedAgainstStore ==
  /\ [](unauthorized = {})
  /\ [][\A c \in Conns :
          (pc[c] = "read" /\ pc'[c] = "persist" /\ cur'[c].type = "channel") =>
            /\ cur'[c].target \in Channels
            /\ UserOf(c) \in admins[cur'[c].target]]_vars

\* C6 witness: user 1 lost the admin right and its channel message is rejected.
C6_Witness ==
  /\ pc[1] = "senderr"
  /\ cur[1].content = "only channel admins can send messages"
  /\ 1 \notin admins[1]
  /\ 3 \in admins[1]

\* C9: for every stored channel message a notification is started for each
\* member other than the sender and none for the sender, and the message goes
\* on to BroadcastToChannel.
C9_MembersNotifiedAndBroadcast ==
  [][\A c \in Conns :
       (pc[c] = "notify" /\ cur[c].type = "channel" /\ pc'[c] # "notify") =>
         /\ pc'[c] = "bcast"
         /\ \A m \in members[cur[c].target] \ {UserOf(c)} :
              Notif(cur[c], m) \in spawned'
         /\ Notif(cur[c], UserOf(c)) \notin spawned']_vars

\* C10: every stored message is handed to its broadcast exactly once, whatever
\* fails on the notification side.
C10_PersistedHandedOffOnce ==
  [][\A c \in Conns :
       (pc[c] \in {"notify", "bcast"} /\ pc'[c] = "read") =>
         /\ cur[c].id \in DOMAIN handoffs'
         /\ handoffs'[cur[c].id] = 1]_vars

\* The step in which a read pump's save fails: it leaves "persist" and no row
\* is added.
SaveFails(c) == pc[c] = "persist" /\ pc'[c] # "persist" /\ rows' = rows

\* C11: when the save of an accepted message fails, the message is dropped:
\* nothing is handed to the Hub, no notification is started or dispatched, the
\* pump holds the message no longer (no retry) and is back at reading frames,
\* and the connection is neither unregistered nor closed; every broadcast the
\* Hub holds is of a stored row.
C11_FailedSaveDropsMessage ==
  /\ [][\A c \in Conns :
          SaveFails(c) =>
            /\ pc'[c] = "read"
            /\ cur'[c] = NoMsg
            /\ UNCHANGED <<hubQ, hubClients, hubChannels, closed, sendQ,
                           spawned, attempts, handoffs, nextId>>]_vars
  /\ [](\A e \in Pending("toUser") \cup Pending("toChannel") :
          e.frame \in rows /\ e.frame.id # 0)

\* C11 witness: the save of a channel message fails on a registered connection
\* and the pump is back at reading frames with the connection still registered.
C11_Witness ==
  /\ cur[1].type = "channel"
  /\ 1 \in hubClients[1]
  /\ ENABLED (/\ PersistFail(1)
              /\ pc'[1] = "read"
              /\ nextId' <= MaxMsgs
              /\ 1 \in hubClients'[1]
              /\ ~closed'[1])

\* C12: when the save of a message fails, the sending connection gets an error
\* frame (the pump goes on to send one, as it does for a validation error).
C12_FailedSaveReported ==
  [][\A c \in Conns :
       SaveFails(c) =>
         \/ pc'[c] = "senderr"
         \/ sendQ'[c] = Append(sendQ[c], ErrorFrame)]_vars

\* C13: a validation failure enqueues nothing while the frame is rejected and
\* exactly one error frame, on the originating connection only, when the pump
\* sends it; the connection is not unregistered or closed by it, the pump is
\* back at reading frames, and no connection other than the one the frames are
\* read from (connection 1) ever holds an error frame.
C13_OneErrorFrameToSender ==
  /\ [][\A c \in Conns :
          (pc[c] = "read" /\ pc'[c] = "senderr") =>
            UNCHANGED <<sendQ, hubQ, hubClients, hubChannels, closed>>]_vars
  /\ [][\A c \in Conns :
          (pc[c] = "senderr" /\ pc'[c] # "senderr") =>
            /\ sendQ'[c] = Append(sendQ[c], ErrorFrame)
            /\ \A d \in Conns \ {c} : sendQ'[d] = sendQ[d]
            /\ pc'[c] = "read"
            /\ ~crashed'
            /\ UNCHANGED <<hubQ, hubClients, hubChannels, closed>>]_vars
  /\ [](\A c \in Conns \ {1} : Queued(c, "error") = {})

\* C13 witness: connection 1 holds the error frame of a rejected message, is
\* still registered and its pump reads on.
C13_Witness ==
  /\ Queued(1, "error") # {}
  /\ pc[1] = "read"
  /\ 1 \in hubClients[1]
  /\ ~closed[1]
  /\ ~crashed

\* C14: under fair scheduling a connection whose transport has been closed by
\* a failure is eventually unregistered by the Hub (its queue is closed).
C14_FailedTransportUnregistered ==
  \A c \in Conns : (conn[c] = "closed") ~> closed[c]

\* The Hub takes the event at the head of its queue.
HubTakes == hubQ # <<>> /\ hubQ' = Tail(hubQ)

\* An event arrives at the tail of the Hub's queue.
HubGets == Len(hubQ') = Len(hubQ) + 1 /\ SubSeq(hubQ', 1, Len(hubQ)) = hubQ

\* C15: the Hub's operations are processed one at a time in arrival order:
\* its queue only changes by an arrival at the tail or by the Hub taking the
\* head, the Membership Directory and the queues' closing change only in a
\* step that takes the head, and that step does what the head event asks and
\* nothing else, whichever connection's task issued it.
C15_HubSerialized ==
  /\ [][hubQ' # hubQ => (HubTakes \/ HubGets)]_vars
  /\ [][(hubClients' # hubClients \/ hubChannels' # hubChannels
           \/ closed' # closed) => HubTakes]_vars
  /\ [][HubTakes =>
          LET e == Head(hubQ) IN
            /\ e.op = "register" =>
                 /\ hubClients' =
                      [hubClients EXCEPT ![UserOf(e.conn)] = @ \cup {e.conn}]
                 /\ UNCHANGED <<hubChannels, closed, sendQ>>
            /\ e.op = "unregister" =>
                 /\ hubClients' =
                      [hubClients EXCEPT ![UserOf(e.conn)] = @ \ {e.conn}]
                 /\ hubChannels' = [ch \in Channels |-> hubChannels[ch] \ {e.conn}]
                 /\ closed' = [closed EXCEPT ![e.conn] = TRUE]
                 /\ UNCHANGED sendQ
            /\ e.op = "subscribe" =>
                 /\ hubChannels' =
                      [hubChannels EXCEPT ![e.target] = @ \cup {e.conn}]
                 /\ UNCHANGED <<hubClients, closed, sendQ>>
            /\ e.op \in {"toUser", "toChannel"} =>
                 UNCHANGED <<hubClients, hubChannels, closed>>]_vars

\* C15 witness: events issued by tasks of two connections wait in the Hub's
\* queue while the Hub has already registered a connection.
C15_Witness ==
  /\ Len(hubQ) = 2
  /\ hubQ[1].conn # hubQ[2].conn
  /\ \E u \in Users : hubClients[u] # {}

\* Message frames, and two of them going from one sender to the same
\* receiver or channel.
IsMsg(f) == f.type \in {"peer", "channel"}
SameStream(f, g) ==
  IsMsg(f) /\ f.type = g.type /\ f.target = g.target /\ f.sender = g.sender

\* The frame a step has just put at the end of a connection's outbound queue.
Arrived(c) == sendQ'[c][Len(sendQ'[c])]

C17_OnlyAuthenticatedRegistered ==
  \A u \in Users : \A c \in hubClients[u] : Authenticated(c) = u

\* C18: every channel's admin set is a subset of its member set.
C18_AdminsAreMembers ==
  \A ch \in DOMAIN admins : admins[ch] \subseteq members[ch]

\* C19: a (channel, user) pair has at most one channel_admins row; a row is
\* only inserted for a pair that has none, and the "already an admin" reply is
\* given for a pair that is an admin and leaves the store as it was.
C19_AdminAddedOnce ==
  /\ [](\A ch \in DOMAIN adminRows : \A u \in Users :
          /\ adminRows[ch][u] <= 1
          /\ u \in admins[ch] <=> adminRows[ch][u] = 1)
  /\ [][\A ch \in Channels : \A u \in Users :
          adminRows'[ch][u] > adminRows[ch][u] =>
            u \notin admins[ch] /\ adminRows[ch][u] = 0]_vars
  /\ [][\A p \in refused' \ refused :
          /\ p[2] \in admins[p[1]]
          /\ UNCHANGED <<members, admins, adminRows, clientRows>>]_vars

\* C19 witness: user 1, admin of channel 1 from its creation, was answered
\* "already an admin" and has one row.
C19_Witness ==
  /\ <<1, 1>> \in refused
  /\ adminRows[1][1] = 1
  /\ 1 \in admins[1]

\* C20: CreateChannel writes nothing to the store before it commits; when it
\* ends, either the store is as it was (a failed step rolled back) or the
\* commit has added the channel with its creator as its one member and admin
\* (with a client row); a channel that exists has its creator in both sets.
C20_CreateChannelAtomic ==
  /\ [][(tx' # tx /\ tx'.pc # "idle") =>
          UNCHANGED <<members, admins, adminRows, clientRows>>]_vars
  /\ [][(tx.pc # "idle" /\ tx'.pc = "idle") =>
          \/ UNCHANGED <<members, admins, adminRows, clientRows>>
          \/ /\ tx.pc = "commit"
             /\ NewChannel \notin DOMAIN members
             /\ DOMAIN members' = DOMAIN members \cup {NewChannel}
             /\ DOMAIN admins' = DOMAIN admins \cup {NewChannel}
             /\ members'[NewChannel] = {tx.user}
             /\ admins'[NewChannel] = {tx.user}
             /\ adminRows'[NewChannel][tx.user] = 1
             /\ clientRows' = clientRows \cup {tx.user}
             /\ \A ch \in Channels :
                  members'[ch] = members[ch] /\ admins'[ch] = admins[ch]]_vars
  /\ [](/\ DOMAIN members = DOMAIN admins
        /\ NewChannel \in DOMAIN members =>
             \E u \in Users :
               /\ members[NewChannel] = {u}
               /\ admins[NewChannel] = {u}
               /\ u \in clientRows)

\* C20 witness: user 3, who had no client row, has created the channel and is
\* its member and admin.
C20_Witness ==
  /\ tx = TxIdle
  /\ NewChannel \in DOMAIN members
  /\ members[NewChannel] = {3}
  /\ admins[NewChannel] = {3}
  /\ 3 \in clientRows

\* C21: every call of SendUserNotification that has ended has appended one
\* history record.
C21_OneRecordPerAttempt ==
  call.pc = "idle" => Len(history) = call.n

\* C22: when a call of SendUserNotification has ended, no token it found
\* invalid is still registered.
C22_InvalidTokensPurged ==
  call.pc = "idle" =>
    \A u \in Users : \A t \in devices[u] : t \notin call.invalid

\* The Unregister events of connection c waiting in the Hub's queue.
Unregisters(c) ==
  Cardinality({i \in 1..Len(hubQ) :
                 hubQ[i].op = "unregister" /\ hubQ[i].conn = c})

\* C23: the read pump ends only from ReadMessage, in a step that drops no
\* frame and hands exactly one Unregister to the Hub; it never starts again and
\* no other step hands an Unregister; a frame that does not decode leaves the
\* pump reading and changes neither the store, the Hub, any queue nor the
\* notification goroutines.
C23_PumpEndsOnReadError ==
  /\ [][\A c \in Conns :
          (pc[c] # "done" /\ pc'[c] = "done") =>
            /\ pc[c] = "read"
            /\ garbled' = garbled
            /\ hubQ' = Append(hubQ, Event("unregister", c, 0, NoMsg))]_vars
  /\ [][\A c \in Conns :
          /\ pc[c] = "done" => pc'[c] = "done"
          /\ Unregisters(c)' > Unregisters(c) =>
               pc[c] # "done" /\ pc'[c] = "done"]_vars
  /\ [][\A c \in Conns :
          garbled'[c] # garbled[c] =>
            /\ pc[c] = "read" /\ pc'[c] = "read"
            /\ UNCHANGED <<rows, nextId, hubQ, hubClients, hubChannels, sendQ,
                           closed, cur, spawned, attempts>>]_vars

\* C23 witness: connection 1 dropped a frame that did not decode, went on to
\* read and accept the next frame, and is registered.
C23_Witness ==
  /\ garbled[1] = 1
  /\ pc[1] = "persist"
  /\ rows = {}
  /\ 1 \in hubClients[1]
  /\ ~closed[1]

\* C24: the Hub processes every Unregister it takes (it is never stuck on
\* one and does not panic), whatever sets the connection is in: afterwards the
\* connection is in no set, its queue is closed and every other connection's
\* entries are as before; and an Unregister in the Hub's queue is preceded by
\* the connection's Register, processed or still queued ahead of it.
C24_UnregisterSafe ==
  /\ [][HubBroadcastStep("unregister") =>
          \A c \in {Head(hubQ).conn} :
            /\ ~crashed'
            /\ Absent(c)'
            /\ closed'[c]
            /\ \A u \in Users : hubClients'[u] = hubClients[u] \ {c}
            /\ \A ch \in Channels : hubChannels'[ch] = hubChannels[ch] \ {c}]_vars
  /\ []((~crashed /\ hubQ # <<>> /\ Head(hubQ).op = "unregister") =>
          ENABLED HubUnregister)
  /\ [](\A i \in 1..Len(hubQ) :
          hubQ[i].op = "unregister" =>
            \/ hubQ[i].conn \in hubClients[UserOf(hubQ[i].conn)]
            \/ \E j \in 1..(i - 1) :
                 hubQ[j].op = "register" /\ hubQ[j].conn = hubQ[i].conn)

\* C24 witness: connection 2 (user 2, a member of channel 1) was unregistered
\* before its preload had subscribed it to anything.
C24_Witness ==
  /\ closed[2]
  /\ pre[2] = "query"
  /\ Absent(2)
  /\ 1 \in ChannelsOf(UserOf(2))
  /\ ~crashed

\* Confirmation frames in connection c's queue, and SubscribeToChannel events
\* of connection c in the Hub's queue.
Confirms(c) ==
  Cardinality({i \in 1..Len(sendQ[c]) : sendQ[c][i] = ConfirmFrame})
Subscribes(c) ==
  Cardinality({i \in 1..Len(hubQ) :
                 hubQ[i].op = "subscribe" /\ hubQ[i].conn = c})

\* C25: the confirmation frame is enqueued only by the step that ends the
\* preload, when no channel of the query's result is left to subscribe; the
\* preload never runs again; the subscribe loop starts from the query's result
\* and takes a channel off only by handing its SubscribeToChannel to the Hub;
\* a failed query ends the preload with the Hub and every queue untouched, and
\* no subscription is issued outside the loop.
C25_ConfirmAfterSubscriptions ==
  /\ [][\A c \in Conns :
          Confirms(c)' > Confirms(c) =>
            /\ pre[c] = "sub" /\ pre'[c] = "done"
            /\ preCh[c] = {}
            /\ Confirms(c)' = Confirms(c) + 1]_vars
  /\ [][\A c \in Conns : pre[c] = "done" => pre'[c] = "done"]_vars
  /\ [][\A c \in Conns :
          /\ (pre[c] = "query" /\ pre'[c] = "sub") =>
               preCh'[c] = ChannelsOf(UserOf(c))
          /\ (pre[c] = "sub" /\ preCh'[c] # preCh[c]) =>
               \E ch \in preCh[c] :
                 /\ preCh'[c] = preCh[c] \ {ch}
                 /\ hubQ' = Append(hubQ, Event("subscribe", c, ch, NoMsg))]_vars
  /\ [][\A c \in Conns :
          /\ (pre[c] = "query" /\ pre'[c] = "done") =>
               UNCHANGED <<hubQ, hubClients, hubChannels, sendQ, closed>>
          /\ Subscribes(c)' > Subscribes(c) => pre[c] = "sub"]_vars

\* C25 witness: connection 2 holds its confirmation frame and is subscribed to
\* channel 1, the one channel its user is a member of.
C25_Witness ==
  /\ sendQ[2] = <<ConfirmFrame>>
  /\ pre[2] = "done"
  /\ 2 \in hubChannels[1]
  /\ ~crashed

\* body is the first keep bytes of content followed by "...".
CutTo(body, content, keep) ==
  /\ body.dots
  /\ body.ascii + 2 * body.wide + (IF body.half THEN 1 ELSE 0) = keep
  /\ body.ascii <= content.ascii
  /\ body.wide <= content.wide
  /\ (body.wide > 0 \/ body.half) => body.ascii = content.ascii
  /\ body.half => body.wide < content.wide

LimitOf(type) == IF type = "peer" THEN PeerLimit ELSE ChannelLimit
KeepOf(type) == IF type = "peer" THEN PeerKeep ELSE ChannelKeep

\* C26 as stated, in characters: content of more than 100 (80) characters is
\* replaced by its first 97 (77) characters and "...", 100 (80) characters in
\* all; content that is not longer is unchanged.
C26_PreviewByCharacters ==
  preview.type # "none" =>
    IF Chars(preview.content) > LimitOf(preview.type)
    THEN /\ CutTo(preview.body, preview.content, KeepOf(preview.type))
         /\ ~preview.body.half
         /\ Chars(preview.body) = LimitOf(preview.type)
    ELSE preview.body = preview.content

\* C26: content of more than 100 (80) bytes is replaced by its first 97 (77)
\* bytes and "...", 100 (80) bytes in all; content that is not longer is
\* unchanged.
C26_PreviewByBytes ==
  preview.type # "none" =>
    IF Bytes(preview.content) > LimitOf(preview.type)
    THEN /\ CutTo(preview.body, preview.content, KeepOf(preview.type))
         /\ Bytes(preview.body) = LimitOf(preview.type)
    ELSE preview.body = preview.content

\* C26 witness: a peer message of 100 characters, one of them wide, was cut to
\* 100 bytes.
C26_Witness ==
  /\ preview.type = "peer"
  /\ preview.content = Text(99, 1)
  /\ preview.body.dots
  /\ Bytes(preview.body) = PeerLimit

\* C27: a call of SendUserNotification for a message is made only when the
\* message is stored and its broadcast has been handed to the Hub.
C27_DispatchAfterFanout ==
  \A n \in attempts :
    /\ \E r \in rows : r.id = n.id
    /\ Count(n.id) >= 1

\* C28: a channel broadcast leaves the queue of every connection that is not
\* subscribed to the channel when the Hub processes it as it was; a channel
\* message enters a connection's queue only in the Hub's step for that
\* message's broadcast; processing a subscription enqueues nothing; and the
\* broadcast of a message is handed to the Hub once at most.
C28_NoCatchUp ==
  /\ [][HubBroadcastStep("toChannel") =>
          \A c \in Conns :
            c \notin Lookup(hubChannels, Head(hubQ).target) =>
              sendQ'[c] = sendQ[c]]_vars
  /\ [][\A c \in Conns :
          (/\ Len(sendQ'[c]) > Len(sendQ[c])
           /\ sendQ'[c][Len(sendQ'[c])].type = "channel") =>
            /\ HubBroadcastStep("toChannel")
            /\ Head(hubQ).frame = sendQ'[c][Len(sendQ'[c])]
            /\ c \in Lookup(hubChannels, Head(hubQ).target)]_vars
  /\ [][HubBroadcastStep("subscribe") => sendQ' = sendQ]_vars
  /\ [](\A id \in DOMAIN handoffs : handoffs[id] <= 1)

\* C28 witness: connection 2 is registered and its subscription to channel 1
\* waits in the Hub's queue behind a broadcast to channel 1, which the Hub
\* processes without enqueuing anything to connection 2.
C28_Witness ==
  /\ 2 \in hubClients[2]
  /\ 2 \notin hubChannels[1]
  /\ Len(hubQ) = 2
  /\ hubQ[1].op = "toChannel" /\ hubQ[1].target = 1
  /\ hubQ[2] = Event("subscribe", 2, 1, NoMsg)
  /\ sendQ[2] = <<>>
  /\ ENABLED (HubBroadcastToChannel /\ sendQ'[2] = <<>>)

\* C29 as stated: a step that changes a channel's member list changes nothing
\* else in the store and nothing in the Hub.
C29_JoinChangesOnlyMembers ==
  [][members' # members =>
       UNCHANGED <<clientRows, admins, adminRows, rows, nextId, hubQ,
                   hubClients, hubChannels, sendQ, closed>>]_vars

\* C29: JoinChannel adds the user to the channel's member list, creating the
\* user's client row when there is none, and changes nothing else in the store
\* and nothing in the Hub or in any queue; a connection enters a channel's
\* subscriber set only through its own SubscribeToChannel, which only its
\* preload issues, for the channels its query returned; and a channel message
\* is enqueued only to connections subscribed when the Hub processes it.
C29_JoinLeavesDirectory ==
  /\ [][members' # members =>
          /\ UNCHANGED <<admins, adminRows, rows, nextId, hubQ, hubClients,
                         hubChannels, sendQ, closed>>
          /\ \E ch \in Channels, u \in Users :
               /\ members' = [members EXCEPT ![ch] = @ \cup {u}]
               /\ clientRows' = clientRows \cup {u}]_vars
  /\ [][\A c \in Conns : \A ch \in Channels :
          (c \in hubChannels'[ch] /\ c \notin hubChannels[ch]) =>
            /\ HubBroadcastStep("subscribe")
            /\ Head(hubQ).conn = c /\ Head(hubQ).target = ch]_vars
  /\ [][\A c \in Conns :
          /\ Subscribes(c)' > Subscribes(c) =>
               \E ch \in preCh[c] :
                 hubQ' = Append(hubQ, Event("subscribe", c, ch, NoMsg))
          /\ pre[c] \in {"sub", "done"} => preCh'[c] \subseteq preCh[c]]_vars
  /\ [][\A c \in Conns :
          (\E i \in 1..Len(sendQ'[c]) : sendQ'[c][i].type = "channel") =>
            \/ \E i \in 1..Len(sendQ[c]) : sendQ[c][i].type = "channel"
            \/ c \in hubChannels[1]]_vars

\* C29 witness: user 3 has joined channel 1; connection 4, opened and preloaded
\* before, is registered but not subscribed and holds no channel message, while
\* connection 5, opened after the join, holds the channel message.
C29_Witness ==
  /\ 3 \in members[1]
  /\ 4 \in hubClients[3]
  /\ pre[4] = "done"
  /\ 4 \notin hubChannels[1]
  /\ sendQ[4] = <<>>
  /\ 5 \in hubChannels[1]
  /\ Len(sendQ[5]) = 1
  /\ sendQ[5][1].type = "channel"

\* C30: a login answered 200 carries an access token and a refresh token, and
\* a login one of whose token generations failed is answered 500.
C30_LoginNeedsBothTokens ==
  \A r \in Logins :
    login[r].resp = 200 =>
      login[r].accessToken # "" /\ login[r].refreshToken # ""

====
